---- MODULE Spec2Model ----
(***************************************************************************)
(* Model of merge-nrostats.py: the decomposition of an IPv4 block of       *)
(* (start, count) into aligned prefixes (add_v4_block_to_radix), the       *)
(* attachment of records to the nodes of a radix tree                      *)
(* (add_prefix_to_radix), the line parser (parse_nro_stats) and the run    *)
(* over the five registries (main).                                        *)
(*                                                                         *)
(* Addresses are AddrBits wide where the source has 32 (IPv4) and V6Bits   *)
(* wide where it has 128 (IPv6): every 32 of the source reads AddrBits     *)
(* here.  A prefix text 'addr/len' is the pair <<addr, len>>; the text of  *)
(* a number or of an address in a line is its decimal text.                *)
(***************************************************************************)
EXTENDS Integers, Sequences, FiniteSets, TLC

\* Width of an IPv4 address (32 in the source).
AddrBits == 4
\* Width of an IPv6 address (128 in the source).
V6Bits == 3
\* Largest number of lines read in one run, over all five files.
MaxLines == 2

VARIABLES
  pc,           \* position in main, or in add_v4_block_to_radix (BlockSpec)
  tmpfiles,     \* sources whose temporary file exists
  src,          \* index in Sources of the file being parsed
  files,        \* files[s]: the lines read so far from the file of source s
  v4radix,      \* prefix -> list of attached info tuples
  v6radix,
  out4,         \* rows written to the IPv4 output file
  out6,         \* rows written to the IPv6 output file
  outfiles,     \* the output files opened for writing ("v4", "v6")
  prefix_addr,  \* locals of add_v4_block_to_radix
  addrcount,
  prefix_size,
  prefix_info,
  emitted       \* the prefixes passed to add_prefix_to_radix by the current call, in order

vars == <<pc, tmpfiles, src, files, v4radix, v6radix, out4, out6, outfiles,
          prefix_addr, addrcount, prefix_size, prefix_info, emitted>>

mainVars == <<tmpfiles, src, files, v6radix, out4, out6, outfiles>>

----------------------------------------------------------------------------
(* Arithmetic of add_v4_block_to_radix *)

\* int(math.pow(2, n)) for 0 <= n
Pow2(n) == 2 ^ n

\* int(math.log(n, 2)) for n >= 1 (the floating-point logarithm is exact
\* below 2^48, so the truncation is the floor of the binary logarithm)
RECURSIVE Log2Floor(_)
Log2Floor(n) == IF n < 2 THEN 0 ELSE 1 + Log2Floor(n \div 2)

\* One past the largest address.
AddrSpace == Pow2(AddrBits)

\* The same without the test of the host bits (strict=False).
ValidNetwork_nonstrict(addr, size) == size \in 0..AddrBits

\* ipaddress.IPv4Network('addr/size') does not raise ValueError: the netmask
\* is in range and addr has no host bits set.
ValidNetwork(addr, size) ==
  /\ size \in 0..AddrBits
  /\ addr % Pow2(AddrBits - size) = 0

----------------------------------------------------------------------------
(* The radix tree: a map from the prefixes that have a node to the node's  *)
(* data['info'] list.                                                      *)

EmptyRadix == [p \in {} |-> <<>>]

\* radix.add(prefix): a new node with empty data
RadixAdd(radix, prefix) ==
  [p \in DOMAIN radix \cup {prefix} |-> IF p \in DOMAIN radix THEN radix[p] ELSE <<>>]

\* The same with the new entry put in front of the list.
add_prefix_to_radix_prepend(radix, prefix, info) ==
  LET rnodes == IF prefix \in DOMAIN radix THEN radix ELSE RadixAdd(radix, prefix)
      info_arr == rnodes[prefix]
  IN  [rnodes EXCEPT ![prefix] = <<info>> \o info_arr]

\* The same with a prefix that is already in the tree left as it is.
add_prefix_to_radix_dropdup(radix, prefix, info) ==
  IF prefix \in DOMAIN radix
    THEN radix
    ELSE [RadixAdd(radix, prefix) EXCEPT ![prefix] = <<info>>]

\* add_prefix_to_radix(radix, prefix, prefix_info)
add_prefix_to_radix(radix, prefix, info) ==
  LET rnodes == IF prefix \in DOMAIN radix THEN radix ELSE RadixAdd(radix, prefix)
      info_arr == rnodes[prefix]
  IN  [rnodes EXCEPT ![prefix] = Append(info_arr, info)]

----------------------------------------------------------------------------
(* add_v4_block_to_radix, one step at a time.  A call is the record        *)
(* [pc, radix, prefix_addr, addrcount, prefix_size, prefix_info, emitted]. *)

\* The same with the logarithm rounded up.
LoopTestStep_ceil(b) ==
  IF b.addrcount > 0
    THEN [b EXCEPT !.pc = "try",
                   !.prefix_size = AddrBits - (IF b.addrcount = Pow2(Log2Floor(b.addrcount))
                                                 THEN Log2Floor(b.addrcount)
                                                 ELSE Log2Floor(b.addrcount) + 1)]
    ELSE [b EXCEPT !.pc = "return"]

\* The same with the loop entered for a count of 0.
LoopTestStep_inclusive(b) ==
  IF b.addrcount >= 0
    THEN [b EXCEPT !.pc = "try", !.prefix_size = AddrBits - Log2Floor(b.addrcount)]
    ELSE [b EXCEPT !.pc = "return"]

\* while addrcount > 0: prefix_size = 32 - int(math.log(addrcount, 2))
LoopTestStep(b) ==
  IF b.addrcount > 0
    THEN [b EXCEPT !.pc = "try", !.prefix_size = AddrBits - Log2Floor(b.addrcount)]
    ELSE [b EXCEPT !.pc = "return"]

\* try: IPv4Network(...); prefix_found = True / except ValueError: prefix_size += 1
TryNetworkStep(b) ==
  IF ValidNetwork(b.prefix_addr, b.prefix_size)
    THEN [b EXCEPT !.pc = "emit"]
    ELSE [b EXCEPT !.prefix_size = b.prefix_size + 1]

\* add_prefix_to_radix(...); addrcount -= used_addrcount; prefix_addr += used_addrcount
\* (IPv4Address.__add__ raises AddressValueError past the last address)
EmitStep(b) ==
  LET prefix == <<b.prefix_addr, b.prefix_size>>
      used_addrcount == Pow2(AddrBits - b.prefix_size)
      added == [b EXCEPT !.radix = add_prefix_to_radix(b.radix, prefix,
                                       Append(b.prefix_info, used_addrcount)),
                         !.emitted = Append(b.emitted, <<b.prefix_addr, b.prefix_size, used_addrcount>>),
                         !.addrcount = b.addrcount - used_addrcount]
  IN  IF b.prefix_addr + used_addrcount >= AddrSpace
        THEN [added EXCEPT !.pc = "raise"]
        ELSE [added EXCEPT !.pc = "while", !.prefix_addr = b.prefix_addr + used_addrcount]

BlockStep(b) ==
  CASE b.pc = "while" -> LoopTestStep(b)
    [] b.pc = "try"   -> TryNetworkStep(b)
    [] b.pc = "emit"  -> EmitStep(b)

RECURSIVE RunBlock(_)
RunBlock(b) == IF b.pc \in {"return", "raise"} THEN b ELSE RunBlock(BlockStep(b))

\* The call add_v4_block_to_radix(v4radix, prefix_addr, addrcount, prefix_info)
\* after prefix_addr = ipaddress.ip_address(prefix_addr).
BlockCall(radix, addr, count, info) ==
  [pc |-> "while", radix |-> radix, prefix_addr |-> addr, addrcount |-> count,
   prefix_size |-> 0, prefix_info |-> info, emitted |-> <<>>]

add_v4_block_to_radix(radix, addr, count, info) == RunBlock(BlockCall(radix, addr, count, info))

----------------------------------------------------------------------------
(* BlockSpec: one call of add_v4_block_to_radix on an empty tree, for      *)
(* every start address and every count from -1 to past twice the address   *)
(* space.                                                                  *)

BlockCounts == -1 .. (2 * AddrSpace + 1)

\* The decimal text of a number, as it stands in a line.
Text(n) == ToString(n)

\* The numbers a text of a line can stand for.
Numbers == -1 .. (2 * AddrSpace + 1)

\* The number each decimal text stands for.
NumberOf == [t \in {Text(n) : n \in Numbers} |-> CHOOSE n \in Numbers : Text(n) = t]

\* The address each address text stands for.
AddressOf == [t \in {Text(a) : a \in 0 .. (AddrSpace - 1)} |->
                CHOOSE a \in 0 .. (AddrSpace - 1) : Text(a) = t]

\* The IPv6 address each address text stands for.
V6AddressOf == [t \in {Text(a) : a \in 0 .. (Pow2(V6Bits) - 1)} |->
                  CHOOSE a \in 0 .. (Pow2(V6Bits) - 1) : Text(a) = t]

\* int(text) does not raise ValueError
IsNumber(text) == text \in DOMAIN NumberOf

\* int(text)
int(text) == NumberOf[text]

\* ipaddress.ip_address(text) does not raise ValueError
IsV4Address(text) == text \in DOMAIN AddressOf

\* ipaddress.ip_address(text)
ip_address(text) == AddressOf[text]

Block == [pc |-> pc, radix |-> v4radix, prefix_addr |-> prefix_addr, addrcount |-> addrcount,
          prefix_size |-> prefix_size, prefix_info |-> prefix_info, emitted |-> emitted]

SetBlock(b) ==
  /\ pc' = b.pc
  /\ v4radix' = b.radix
  /\ prefix_addr' = b.prefix_addr
  /\ addrcount' = b.addrcount
  /\ prefix_size' = b.prefix_size
  /\ prefix_info' = b.prefix_info
  /\ emitted' = b.emitted
  /\ UNCHANGED mainVars

InitBlock ==
  /\ tmpfiles = {}
  /\ src = 0
  /\ files = <<>>
  /\ v6radix = EmptyRadix
  /\ out4 = <<>>
  /\ out6 = <<>>
  /\ outfiles = {}
  /\ \E start \in 0 .. (AddrSpace - 1), count \in BlockCounts :
       LET b == BlockCall(EmptyRadix, start, count,
                          <<"ripencc", "NL", "20200101", "allocated", Text(start), count>>)
       IN  /\ pc = b.pc
           /\ v4radix = b.radix
           /\ prefix_addr = b.prefix_addr
           /\ addrcount = b.addrcount
           /\ prefix_size = b.prefix_size
           /\ prefix_info = b.prefix_info
           /\ emitted = b.emitted

LoopTest == pc = "while" /\ SetBlock(LoopTestStep(Block))

TryNetwork == pc = "try" /\ SetBlock(TryNetworkStep(Block))

Emit == pc = "emit" /\ SetBlock(EmitStep(Block))

NextBlock == LoopTest \/ TryNetwork \/ Emit

BlockSpec == InitBlock /\ [][NextBlock]_vars

BlockSpecFair == BlockSpec /\ WF_vars(NextBlock)

----------------------------------------------------------------------------
(* Properties of one call of add_v4_block_to_radix (BlockSpec).  The       *)
(* arguments of the call are read back from prefix_info, which the call    *)
(* never changes: prefix_info[5] is the text of the start address and      *)
(* prefix_info[6] the count.                                               *)

Start0 == ip_address(prefix_info[5])

Count0 == prefix_info[6]

InRange == Count0 > 0 /\ Start0 + Count0 <= AddrSpace

Finished == pc \in {"return", "raise"}

\* The addresses of the i-th emitted fragment, from its address and prefix length.
FragAddrs(i) == emitted[i][1] .. (emitted[i][1] + Pow2(AddrBits - emitted[i][2]) - 1)

EmittedAddrs == UNION {FragAddrs(i) : i \in 1 .. Len(emitted)}

\* The largest power of two that is at most r and divides a, capped at the
\* size of the address space.
MaxBlock(a, r) ==
  CHOOSE b \in {Pow2(k) : k \in 0 .. AddrBits} :
    /\ b <= r
    /\ a % b = 0
    /\ \A k \in 0 .. AddrBits : (Pow2(k) <= r /\ a % Pow2(k) = 0) => Pow2(k) <= b

\* C1: for count > 0 and start + count <= 2^32 the emitted fragments are
\* pairwise disjoint, in strictly ascending address order, stay inside
\* [start, start+count), leave no gap behind the current address, and when
\* the call has ended they cover [start, start+count) exactly.
ExactCoverage ==
  InRange =>
    /\ \A i, j \in 1 .. Len(emitted) : i < j =>
         /\ FragAddrs(i) \cap FragAddrs(j) = {}
         /\ emitted[i][1] < emitted[j][1]
    /\ EmittedAddrs \subseteq Start0 .. (Start0 + Count0 - 1)
    /\ EmittedAddrs = Start0 .. (Start0 + (Count0 - addrcount) - 1)
    /\ Finished => EmittedAddrs = Start0 .. (Start0 + Count0 - 1)

\* A call that has ended after emitting three fragments or more.
ExactCoverageWitness == InRange /\ pc = "return" /\ Len(emitted) >= 3

\* C2: every emitted fragment has a prefix length in 0..32, an address that
\* is a multiple of its block size 2^(32-L), and a recorded
\* used_address_count of exactly 2^(32-L), in the call's log and in the
\* tuple attached to the node.
PowerOfTwoAlignment ==
  /\ \A i \in 1 .. Len(emitted) :
       /\ emitted[i][2] \in 0 .. AddrBits
       /\ emitted[i][1] % Pow2(AddrBits - emitted[i][2]) = 0
       /\ emitted[i][3] = Pow2(AddrBits - emitted[i][2])
  /\ \A p \in DOMAIN v4radix :
       /\ p[2] \in 0 .. AddrBits
       /\ p[1] % Pow2(AddrBits - p[2]) = 0
       /\ \A k \in 1 .. Len(v4radix[p]) : v4radix[p][k][7] = Pow2(AddrBits - p[2])

\* A fragment of more than one address at a non-zero address is attached.
PowerOfTwoAlignmentWitness ==
  \E p \in DOMAIN v4radix : p[1] > 0 /\ p[2] < AddrBits /\ Len(v4radix[p]) = 1

\* C9 (as stated): at every step with current address a and remaining count
\* r > 0 the emitted block size b is the largest power of two with b <= r
\* that divides a; the step then advances a by b and reduces r by b.
GreedyStepAdvances ==
  [][(InRange /\ pc = "emit") =>
       LET b == MaxBlock(prefix_addr, addrcount)
       IN  /\ Pow2(AddrBits - prefix_size) = b
           /\ emitted' = Append(emitted, <<prefix_addr, prefix_size, b>>)
           /\ addrcount' = addrcount - b
           /\ prefix_addr' = prefix_addr + b]_vars

\* The block size of every step is the greedy one, and a step that does
\* not raise advances the address by it.
GreedyBlockSize ==
  [][pc = "emit" =>
       LET b == MaxBlock(prefix_addr, addrcount)
       IN  /\ Pow2(AddrBits - prefix_size) = b
           /\ emitted' = Append(emitted, <<prefix_addr, prefix_size, b>>)
           /\ addrcount' = addrcount - b
           /\ pc' = "while" => prefix_addr' = prefix_addr + b]_vars

\* C10: for count > 0 and start + count <= 2^32 the prefix-length search
\* never passes 32, every outer iteration removes at least one and at most
\* the remaining number of addresses, the remaining count never becomes
\* negative, and the loop ends, with the remaining count exactly 0.
Termination ==
  /\ [](InRange => /\ prefix_size <= AddrBits
                   /\ addrcount >= 0
                   /\ Finished => addrcount = 0)
  /\ [][(InRange /\ pc = "emit") =>
          /\ addrcount - addrcount' >= 1
          /\ addrcount - addrcount' <= addrcount]_vars
  /\ [][(InRange /\ pc = "try") => prefix_size' <= AddrBits]_vars
  /\ <>Finished

\* A call in range has ended after more than one outer iteration.
TerminationWitness == InRange /\ Finished /\ Len(emitted) >= 2 /\ addrcount = 0

\* C5 (as stated): a call that ends in an error leaves the tree as it was
\* before the record (here: empty).
PerRecordAtomicity == pc = "raise" => v4radix = EmptyRadix

\* C6 (as stated): a count <= 0 or a count above 2^32 ends in an error and
\* attaches nothing.
InvalidCountIsFatal ==
  (Finished /\ (Count0 <= 0 \/ Count0 > AddrSpace)) => (pc = "raise" /\ v4radix = EmptyRadix)

----------------------------------------------------------------------------
(* parse_nro_stats: a line is the sequence of its '|'-separated fields,    *)
(* every field a text.  Python's fields[k] is fields[k+1] here.            *)

\* The radix tree can parse the prefix text 'addr/size' as an IPv6 prefix.
IsV6Prefix(text, size) ==
  /\ text \in DOMAIN V6AddressOf
  /\ size \in 0 .. V6Bits

\* The prefix of the node the radix tree uses for 'addr/size': the address
\* with its host bits cleared.
V6Prefix(text, size) ==
  LET a == V6AddressOf[text]
  IN  <<(a \div Pow2(V6Bits - size)) * Pow2(V6Bits - size), size>>

\* The state of the two trees after a step, and whether the step raised.
Trees(v4, v6, raised) == [v4 |-> v4, v6 |-> v6, raised |-> raised]

\* The body of the loop of parse_nro_stats past the test of the line.
Ingest(v4, v6, fields) ==
  IF ~IsNumber(fields[5])
    THEN Trees(v4, v6, TRUE)
    ELSE
      LET info == <<fields[1], fields[2], fields[6], fields[7], fields[4], int(fields[5])>>
      IN  IF fields[3] = "ipv4"
            THEN IF ~IsV4Address(fields[4])
                   THEN Trees(v4, v6, TRUE)
                   ELSE LET b == add_v4_block_to_radix(v4, ip_address(fields[4]),
                                                       int(fields[5]), info)
                        IN  Trees(b.radix, v6, b.pc = "raise")
            ELSE IF ~IsV6Prefix(fields[4], int(fields[5]))
                   THEN Trees(v4, v6, TRUE)
                   ELSE Trees(v4,
                              add_prefix_to_radix(v6, V6Prefix(fields[4], int(fields[5])), info),
                              FALSE)

\* The same with lines of more than 7 fields skipped too.
SkipsLine_exactly7(fields) ==
  Len(fields) # 7 \/ (fields[3] # "ipv4" /\ fields[3] # "ipv6")

\* if len(fields) < 7 or (fields[2] != 'ipv4' and fields[2] != 'ipv6'): continue
SkipsLine(fields) ==
  Len(fields) < 7 \/ (fields[3] # "ipv4" /\ fields[3] # "ipv6")

\* One iteration of the loop of parse_nro_stats.
ProcessLine(v4, v6, fields) ==
  IF SkipsLine(fields) THEN Trees(v4, v6, FALSE) ELSE Ingest(v4, v6, fields)

----------------------------------------------------------------------------
(* Traversal of a radix tree and the rows main writes. *)

\* Some node of the tree lies at or below addr/len.
HasNode(radix, bits, addr, len) ==
  \E p \in DOMAIN radix :
    p[2] >= len /\ p[1] \div Pow2(bits - len) = addr \div Pow2(bits - len)

\* The same walk with the 1-branch first.
RECURSIVE Walk_onefirst(_, _, _, _)
Walk_onefirst(radix, bits, addr, len) ==
  IF ~HasNode(radix, bits, addr, len)
    THEN <<>>
    ELSE (IF <<addr, len>> \in DOMAIN radix THEN << <<addr, len>> >> ELSE <<>>)
         \o (IF len < bits
               THEN Walk_onefirst(radix, bits, addr + Pow2(bits - len - 1), len + 1)
                    \o Walk_onefirst(radix, bits, addr, len + 1)
               ELSE <<>>)

\* Pre-order walk below the node of addr/len: the node, its 0-branch, its 1-branch.
RECURSIVE Walk(_, _, _, _)
Walk(radix, bits, addr, len) ==
  IF ~HasNode(radix, bits, addr, len)
    THEN <<>>
    ELSE (IF <<addr, len>> \in DOMAIN radix THEN << <<addr, len>> >> ELSE <<>>)
         \o (IF len < bits
               THEN Walk(radix, bits, addr, len + 1)
                    \o Walk(radix, bits, addr + Pow2(bits - len - 1), len + 1)
               ELSE <<>>)

\* for rnode in radix: the prefixes of the nodes, in the order of the iteration
RadixIter(radix, bits) == Walk(radix, bits, 0, 0)

\* The IPv4 row written for one info tuple of a node.
Row4(prefix, info) == <<prefix, info[1], info[3], info[2], info[4], info[5], info[6]>>

\* The IPv6 row written for one info tuple of a node.
Row6(prefix, info) == <<prefix, info[1], info[3], info[2], info[4]>>

RECURSIVE Rows4From(_, _, _)
Rows4From(radix, nodes, i) ==
  IF i > Len(nodes) THEN <<>>
  ELSE [k \in 1 .. Len(radix[nodes[i]]) |-> Row4(nodes[i], radix[nodes[i]][k])]
       \o Rows4From(radix, nodes, i + 1)

RECURSIVE Rows6From(_, _, _)
Rows6From(radix, nodes, i) ==
  IF i > Len(nodes) THEN <<>>
  ELSE [k \in 1 .. Len(radix[nodes[i]]) |-> Row6(nodes[i], radix[nodes[i]][k])]
       \o Rows6From(radix, nodes, i + 1)

\* The loop over v4radix in main
Rows4(radix) == Rows4From(radix, RadixIter(radix, AddrBits), 1)

\* The loop over v6radix in main
Rows6(radix) == Rows6From(radix, RadixIter(radix, V6Bits), 1)

----------------------------------------------------------------------------
(* main *)

Sources == <<"afrinic", "arin", "apnic", "lacnic", "ripencc">>

Half == AddrSpace \div 2

\* The lines a file of registry rir can hold.
Lines(rir) ==
  { <<rir, "ZA", "ipv4", Text(Half), "3", "20200101", "allocated">>,
    <<rir, "ZA", "ipv4", Text(Half), "2", "20200102", "assigned", "extended">>,
    <<rir, "ZA", "ipv4", "4", "4", "20200101", "allocated">>,
    <<rir, "ZA", "ipv4", Text(AddrSpace - 2), "2", "20200101", "reserved">>,
    <<rir, "ZA", "ipv4", "0", "0", "20200101", "available">>,
    <<rir, "ZA", "ipv4", "0", "x", "20200101", "allocated">>,
    <<rir, "NL", "ipv6", "0", "1", "20200101", "allocated">>,
    <<rir, "NL", "ipv6", "1", "2", "20200101", "assigned">>,
    <<rir, "NL", "ipv6", "0", Text(V6Bits + 1), "20200101", "allocated">>,
    <<"2", rir, "20200101", "3", "19830101", "20200101", "+0000">>,
    <<rir, "*", "ipv4", "*", "3", "summary">>,
    <<rir, "ZA", "asn", "1228", "1", "19910301", "allocated">>,
    <<"">> }

LinesRead == Len(files[1]) + Len(files[2]) + Len(files[3]) + Len(files[4]) + Len(files[5])

blockVars == <<prefix_addr, addrcount, prefix_size, prefix_info, emitted>>

Init ==
  /\ pc = "fetch"
  /\ tmpfiles = {}
  /\ src = 1
  /\ files = [i \in 1 .. 5 |-> <<>>]
  /\ v4radix = EmptyRadix
  /\ v6radix = EmptyRadix
  /\ out4 = <<>>
  /\ out6 = <<>>
  /\ outfiles = {}
  /\ prefix_addr = 0
  /\ addrcount = 0
  /\ prefix_size = 0
  /\ prefix_info = <<>>
  /\ emitted = <<>>

\* fetch_<rir>_nrostats(day) returns the name of the temporary file
FetchOK ==
  /\ pc = "fetch"
  /\ tmpfiles' = tmpfiles \cup {Sources[src]}
  /\ IF src < 5 THEN pc' = "fetch" /\ src' = src + 1
                ELSE pc' = "parse" /\ src' = 1
  /\ UNCHANGED <<files, v4radix, v6radix, out4, out6, outfiles>>
  /\ UNCHANGED blockVars

\* fetch_<rir>_nrostats(day) raises: except prints, finally unlinks
FetchFail ==
  /\ pc = "fetch"
  /\ pc' = "failed"
  /\ tmpfiles' = {}
  /\ UNCHANGED <<src, files, v4radix, v6radix, out4, out6, outfiles>>
  /\ UNCHANGED blockVars

\* The same with the error of a record caught and the parse carried on.
ReadLine_swallow ==
  /\ pc = "parse"
  /\ LinesRead < MaxLines
  /\ \E line \in Lines(Sources[src]) :
       LET t == ProcessLine(v4radix, v6radix, line)
       IN  /\ files' = [files EXCEPT ![src] = Append(@, line)]
           /\ v4radix' = t.v4
           /\ v6radix' = t.v6
           /\ pc' = "parse"
           /\ tmpfiles' = tmpfiles
  /\ UNCHANGED <<src, out4, out6, outfiles>>
  /\ UNCHANGED blockVars

\* parse_nro_stats reads one more line of the file of Sources[src]
ReadLine ==
  /\ pc = "parse"
  /\ LinesRead < MaxLines
  /\ \E line \in Lines(Sources[src]) :
       LET t == ProcessLine(v4radix, v6radix, line)
       IN  /\ files' = [files EXCEPT ![src] = Append(@, line)]
           /\ v4radix' = t.v4
           /\ v6radix' = t.v6
           /\ IF t.raised THEN pc' = "failed" /\ tmpfiles' = {}
                          ELSE pc' = "parse" /\ tmpfiles' = tmpfiles
  /\ UNCHANGED <<src, out4, out6, outfiles>>
  /\ UNCHANGED blockVars

\* parse_nro_stats returns at the end of the file; the next file is opened
EndOfFile ==
  /\ pc = "parse"
  /\ IF src < 5 THEN pc' = "parse" /\ src' = src + 1
                ELSE pc' = "write" /\ src' = src
  /\ UNCHANGED <<tmpfiles, files, v4radix, v6radix, out4, out6, outfiles>>
  /\ UNCHANGED blockVars

\* the two output loops of main, then finally unlinks
WriteOutput ==
  /\ pc = "write"
  /\ outfiles' = {"v4", "v6"}
  /\ out4' = Rows4(v4radix)
  /\ out6' = Rows6(v6radix)
  /\ tmpfiles' = {}
  /\ pc' = "done"
  /\ UNCHANGED <<src, files, v4radix, v6radix>>
  /\ UNCHANGED blockVars

Next == FetchOK \/ FetchFail \/ ReadLine \/ EndOfFile \/ WriteOutput

Spec == Init /\ [][Next]_vars

----------------------------------------------------------------------------
(* The parse phase of main with the five parse_nro_stats calls in a given  *)
(* order: order[k] is the index in Sources of the k-th file parsed (main   *)
(* itself has order = <<1, 2, 3, 4, 5>>), fs[i] the lines of file i.       *)

RECURSIVE IngestLines(_, _, _)
IngestLines(t, lines, i) ==
  IF i > Len(lines) \/ t.raised
    THEN t
    ELSE IngestLines(ProcessLine(t.v4, t.v6, lines[i]), lines, i + 1)

RECURSIVE IngestFiles(_, _, _, _)
IngestFiles(t, order, fs, k) ==
  IF k > Len(order) \/ t.raised
    THEN t
    ELSE IngestFiles(IngestLines(t, fs[order[k]], 1), order, fs, k + 1)

\* What a run that parses the files in the given order writes.
RunOutput(order, fs) ==
  LET t == IngestFiles(Trees(EmptyRadix, EmptyRadix, FALSE), order, fs, 1)
  IN  IF t.raised
        THEN [written |-> FALSE, v4 |-> <<>>, v6 |-> <<>>]
        ELSE [written |-> TRUE, v4 |-> Rows4(t.v4), v6 |-> Rows6(t.v6)]

\* The files that hold lines.  Parsing a file without lines changes nothing,
\* wherever it stands in the order.
FilesWithLines(fs) == {i \in 1 .. 5 : Len(fs[i]) > 0}

\* Every order in which the files that hold lines can be parsed.
Orders(fs) ==
  LET S == FilesWithLines(fs)
  IN  {o \in [1 .. Cardinality(S) -> S] : \A i, j \in 1 .. Cardinality(S) : i # j => o[i] # o[j]}

----------------------------------------------------------------------------
(* Properties of a run (Spec). *)

\* The lines read so far, in the order they were read.
AllLines == files[1] \o files[2] \o files[3] \o files[4] \o files[5]

\* The insertions <<prefix, info>> a line makes into the IPv4 tree.
Inserts4(fields) ==
  IF Len(fields) >= 7 /\ fields[3] = "ipv4" /\ IsNumber(fields[5]) /\ IsV4Address(fields[4])
    THEN LET info == <<fields[1], fields[2], fields[6], fields[7], fields[4], int(fields[5])>>
             b == add_v4_block_to_radix(EmptyRadix, ip_address(fields[4]), int(fields[5]), info)
         IN  [i \in 1 .. Len(b.emitted) |->
                << <<b.emitted[i][1], b.emitted[i][2]>>, Append(info, b.emitted[i][3]) >>]
    ELSE <<>>

\* The insertions <<prefix, info>> a line makes into the IPv6 tree.
Inserts6(fields) ==
  IF /\ Len(fields) >= 7 /\ fields[3] = "ipv6" /\ IsNumber(fields[5])
     /\ IsV6Prefix(fields[4], int(fields[5]))
    THEN << << V6Prefix(fields[4], int(fields[5])),
               <<fields[1], fields[2], fields[6], fields[7], fields[4], int(fields[5])>> >> >>
    ELSE <<>>

RECURSIVE Log4(_, _)
Log4(lines, i) == IF i > Len(lines) THEN <<>> ELSE Inserts4(lines[i]) \o Log4(lines, i + 1)

RECURSIVE Log6(_, _)
Log6(lines, i) == IF i > Len(lines) THEN <<>> ELSE Inserts6(lines[i]) \o Log6(lines, i + 1)

\* The info tuples of the insertions of prefix p in a log, in order.
InfosOf(log, p) ==
  LET IsP(e) == e[1] = p
      sel == SelectSeq(log, IsP)
  IN  [k \in 1 .. Len(sel) |-> sel[k][2]]

\* C3: the record list of each node holds exactly one entry per insertion
\* of that exact prefix, in insertion order, and a node exists exactly for
\* the prefixes inserted; nothing is dropped or merged.
AttachmentsKept ==
  LET log4 == Log4(AllLines, 1)
      log6 == Log6(AllLines, 1)
  IN  /\ DOMAIN v4radix = {log4[i][1] : i \in 1 .. Len(log4)}
      /\ DOMAIN v6radix = {log6[i][1] : i \in 1 .. Len(log6)}
      /\ \A p \in DOMAIN v4radix : v4radix[p] = InfosOf(log4, p)
      /\ \A p \in DOMAIN v6radix : v6radix[p] = InfosOf(log6, p)

\* A run has ended with a node that holds the entries of two registries.
AttachmentsKeptWitness ==
  /\ pc = "done"
  /\ \E p \in DOMAIN v4radix :
       /\ Len(v4radix[p]) = 2
       /\ v4radix[p][1][1] # v4radix[p][2][1]

\* C4 (as stated): parsing the five files in any order yields the same
\* final sequence of output rows.
IngestionOrderIndependence ==
  pc = "done" =>
    \A order \in Orders(files) : RunOutput(order, files) = [written |-> TRUE, v4 |-> out4, v6 |-> out6]

\* The prefixes of a sequence of rows, in order.
PrefixesOf(rows) == [i \in 1 .. Len(rows) |-> rows[i][1]]

\* Two sequences of rows have the same rows the same number of times.
SameRows(a, b) ==
  /\ Len(a) = Len(b)
  /\ \A i \in 1 .. Len(a) :
       Cardinality({j \in 1 .. Len(a) : a[j] = a[i]}) = Cardinality({j \in 1 .. Len(b) : b[j] = a[i]})

\* C4 (amended): parsing the five files in any order yields the same
\* sequence of prefixes in the output and the same rows for each prefix up
\* to their order; a run that fails while parsing fails in any order.
IngestionOrderPrefixes ==
  /\ pc = "done" =>
       \A order \in Orders(files) :
         LET o == RunOutput(order, files)
         IN  /\ o.written
             /\ PrefixesOf(o.v4) = PrefixesOf(out4)
             /\ PrefixesOf(o.v6) = PrefixesOf(out6)
             /\ SameRows(o.v4, out4)
             /\ SameRows(o.v6, out6)
  /\ (pc = "failed" /\ LinesRead > 0) =>
       \A order \in Orders(files) : ~RunOutput(order, files).written

\* A run has written the rows of a prefix that two files contributed to.
IngestionOrderWitness ==
  /\ pc = "done"
  /\ \E i, j \in 1 .. Len(out4) : i < j /\ out4[i][1] = out4[j][1] /\ out4[i][2] # out4[j][2]

\* p comes before q in ascending order of network address, the shorter
\* prefix first at the same address.
PrefixLess(p, q) == p[1] < q[1] \/ (p[1] = q[1] /\ p[2] < q[2])

\* The rows of prefix p among rows, in order.
RowsOf(rows, p) ==
  LET IsP(r) == r[1] = p
  IN  SelectSeq(rows, IsP)

\* C7: the rows written name every prefix with an attached record and no
\* other, in ascending order of network address with the shorter prefix
\* first at the same address, each prefix once (its rows are consecutive),
\* and the rows of one prefix follow the attachment order.
TraversalOrder ==
  pc = "done" =>
    /\ \A i, j \in 1 .. Len(out4) : i < j =>
         (out4[i][1] = out4[j][1] \/ PrefixLess(out4[i][1], out4[j][1]))
    /\ \A i, j \in 1 .. Len(out6) : i < j =>
         (out6[i][1] = out6[j][1] \/ PrefixLess(out6[i][1], out6[j][1]))
    /\ {out4[i][1] : i \in 1 .. Len(out4)} = {p \in DOMAIN v4radix : Len(v4radix[p]) >= 1}
    /\ {out6[i][1] : i \in 1 .. Len(out6)} = {p \in DOMAIN v6radix : Len(v6radix[p]) >= 1}
    /\ \A p \in DOMAIN v4radix :
         RowsOf(out4, p) = [k \in 1 .. Len(v4radix[p]) |-> Row4(p, v4radix[p][k])]
    /\ \A p \in DOMAIN v6radix :
         RowsOf(out6, p) = [k \in 1 .. Len(v6radix[p]) |-> Row6(p, v6radix[p][k])]

\* Rows were written for a shorter and a longer prefix at one address.
TraversalOrderWitness ==
  /\ pc = "done"
  /\ \E i, j \in 1 .. Len(out6) : out6[i][1][1] = out6[j][1][1] /\ out6[i][1][2] < out6[j][1][2]

\* The line the step has read, if it read one.
ReadsLine == pc = "parse" /\ Len(files'[src]) = Len(files[src]) + 1

HasOutput == out4 # <<>> \/ out6 # <<>> \/ outfiles # {}

\* Some line read so far makes its ingest raise.
SomeIngestRaised ==
  IngestFiles(Trees(EmptyRadix, EmptyRadix, FALSE), <<1, 2, 3, 4, 5>>, files, 1).raised

\* C11: the five sources are fetched in the order AfriNIC, ARIN, APNIC,
\* LACNIC, RIPE NCC before any is parsed and parsed in that order; output
\* is written only in the step after the fifth file was parsed to its end,
\* with no ingest having raised; a fetch or an ingest that raises ends the
\* run, after which nothing more is parsed and no output file or row
\* exists.
AllOrNothing ==
  /\ [](HasOutput => (pc = "done" /\ src = 5 /\ ~SomeIngestRaised))
  /\ [](pc = "fetch" => (LinesRead = 0 /\ tmpfiles = {Sources[i] : i \in 1 .. (src - 1)}))
  /\ [](pc = "parse" => (tmpfiles = {Sources[i] : i \in 1 .. 5}
                          /\ \A i \in (src + 1) .. 5 : files[i] = <<>>))
  /\ [](pc = "failed" => ~HasOutput)
  /\ [][(out4' # out4 \/ out6' # out6 \/ outfiles' # outfiles) =>
          (pc = "write" /\ src = 5 /\ tmpfiles = {Sources[i] : i \in 1 .. 5})]_vars
  /\ [][ReadsLine =>
          (ProcessLine(v4radix, v6radix, files'[src][Len(files'[src])]).raised
             => pc' = "failed")]_vars
  /\ [][pc # "failed"]_vars

\* A record of a source before the last has raised after attaching a
\* fragment: the run has ended with nothing written.
AllOrNothingWitness ==
  pc = "failed" /\ LinesRead > 0 /\ src < 5 /\ v4radix # EmptyRadix /\ ~HasOutput

====
